---- MODULE Spec2Model ----
(***************************************************************************)
(* Model of genewalk/perform_statistics.py: GeneWalk.generate_output,      *)
(* GeneWalk.get_GO_df and GeneWalk.P_sim (human-gene branch,               *)
(* mouse_genes = False).                                                   *)
(*                                                                         *)
(* The attributes generate_output reads but __init__ does not set          *)
(* (hgncid, Nreps, path, mouse_genes) and the name fname_out are taken to  *)
(* be bound by the caller; the table is the one held in                    *)
(* self.outdfs[Nreps+1] when line 214 has run.                             *)
(*                                                                         *)
(* Numbers.  Similarities, p-values, q-values and means are exact          *)
(* rationals <<n, d>> in lowest terms with d > 0; <<0, 0>> is NaN (an      *)
(* absent cell).  A sem column holds the SQUARE of the value the code      *)
(* computes (std^2 / Nreps), since std and sqrt(Nreps) are non-negative    *)
(* and the square decides every comparison of them.                        *)
(***************************************************************************)
EXTENDS Integers, Sequences, FiniteSets, TLC

VARIABLES graph, hgncid, alpha_FDR, srd, nvfiles, outdfs, pc, call

vars == <<graph, hgncid, alpha_FDR, srd, nvfiles, outdfs, pc, call>>

---------------------------------------------------------------------------
(* Bounds *)

\* number of replicate embeddings of a run
Nreps == 3
\* longest null sample, largest similarity value and most p-values of the
\* specifications that exercise P_sim and the FDR correction on their own
MaxLen == 3
MaxVal == 3
MaxM == 3

---------------------------------------------------------------------------
(* Exact arithmetic *)

Abs(n) == IF n < 0 THEN -n ELSE n

RECURSIVE GCD(_, _)
GCD(a, b) == IF b = 0 THEN a ELSE GCD(b, a % b)

Rat(n, d) == LET g == GCD(Abs(n), d) IN <<n \div g, d \div g>>

R(n) == <<n, 1>>

NaN == <<0, 0>>

IsNaN(x) == x[2] = 0

RAdd(x, y) == Rat(x[1] * y[2] + y[1] * x[2], x[2] * y[2])

RSub(x, y) == Rat(x[1] * y[2] - y[1] * x[2], x[2] * y[2])

RMul(x, y) == Rat(x[1] * y[1], x[2] * y[2])

\* x / y for y > 0
RDiv(x, y) == Rat(x[1] * y[2], x[2] * y[1])

RLt(x, y) == x[1] * y[2] < y[1] * x[2]

RLe(x, y) == x[1] * y[2] <= y[1] * x[2]

RMin(x, y) == IF RLt(y, x) THEN y ELSE x

Range(s) == {s[i] : i \in 1..Len(s)}

\* lexicographic order of two equally long sequences of rationals
RECURSIVE LexLt(_, _)
LexLt(a, b) ==
    IF a = <<>> THEN FALSE
    ELSE IF RLt(Head(a), Head(b)) THEN TRUE
    ELSE IF RLt(Head(b), Head(a)) THEN FALSE
    ELSE LexLt(Tail(a), Tail(b))

\* the permutation a stable sort by keys[i] applies to positions 1..Len(keys)
StableOrder(keys) ==
    LET n == Len(keys)
        Before(j, i) == LexLt(keys[j], keys[i]) \/ (~LexLt(keys[i], keys[j]) /\ j < i)
        rank(i) == 1 + Cardinality({j \in 1..n : Before(j, i)})
    IN [p \in 1..n |-> CHOOSE i \in 1..n : rank(i) = p]

SortByKeys(tbl, keys) ==
    LET o == StableOrder(keys) IN [p \in 1..Len(tbl) |-> tbl[o[p]]]

---------------------------------------------------------------------------
(* The GeneWalk network *)

\* gene node 3 has a gene for neighbour and no GO term
GeneNodes == {1, 2, 3}

GONodes == {11, 12}

Nodes == GeneNodes \cup GONodes

\* nx.nodes(self.graph): the order the replicate loop visits the nodes in
g_view == <<1, 11, 3, 2, 12>>

\* the 'HGNC' attribute of the gene nodes (GO nodes have none)
HGNCattr == (1 :> 7) @@ (2 :> 5) @@ (3 :> 9)

Adjacency ==
    (1 :> {2, 3, 11, 12}) @@ (2 :> {1, 12}) @@ (3 :> {1}) @@ (11 :> {1}) @@ (12 :> {1, 2})

\* the networks of the model: they differ in the 'name' attribute of the
\* GO nodes (two terms with one description, or descriptions in the
\* opposite order of the GO ids)
Graphs ==
    {[adj |-> Adjacency, HGNC |-> HGNCattr, name |-> nm] :
        nm \in {(11 :> 1) @@ (12 :> 1), (11 :> 2) @@ (12 :> 1)}}

\* set(nx.get_node_attributes(self.graph, 'GO'))
GO_nodes == GONodes

\* one embedding (GeneWalk_DW_nv_<rep>.pkl): its vocabulary and the
\* similarity of every two nodes
Emb(vocab, s11, s12, s22) ==
    [vocab |-> vocab,
     sim |-> [e \in Nodes \X Nodes |->
                IF e \in {<<1, 11>>, <<11, 1>>} THEN s11
                ELSE IF e \in {<<1, 12>>, <<12, 1>>} THEN s12
                ELSE IF e \in {<<2, 12>>, <<12, 2>>} THEN s22
                ELSE 0]]

\* the embeddings of the model; the last has no vector for gene node 2
Embeddings ==
    {Emb(Nodes, 3, 7, 5), Emb(Nodes, 5, 5, 7), Emb(Nodes, 7, 1, 3),
     Emb(Nodes \ {2}, 5, 5, 5)}

\* the null distributions of the model: one covers both connectivity
\* buckets the network reaches, the other lacks bucket 1
NullDists ==
    {(0 :> <<2, 4, 6, 8>>) @@ (1 :> <<2, 4, 6, 8>>), (0 :> <<2, 4, 6, 8>>)}

\* the input gene lists of the runs (the second holds the gene without GO
\* terms), and with them the lists of one gene
GeneLists == {<<7, 5>>, <<9, 5, 7>>}

AllGeneLists == GeneLists \cup {<<7>>, <<5>>}

Alphas == {Rat(3, 4), R(1)}

---------------------------------------------------------------------------
(* GeneWalk.P_sim *)

RECURSIVE FloorLog2(_)
FloorLog2(n) == IF n <= 1 THEN 0 ELSE 1 + FloorLog2(n \div 2)

\* 'd' + str(np.floor(np.log2(N_con))), as the bucket number
dist_key(N_con) == FloorLog2(N_con)

\* np.searchsorted(a, v, side='left'): the binary search of numpy
RECURSIVE BinSearchLeft(_, _, _, _)
BinSearchLeft(a, v, low, high) ==
    IF low >= high THEN low
    ELSE LET mid == low + ((high - low) \div 2)
         IN IF a[mid + 1] < v THEN BinSearchLeft(a, v, mid + 1, high)
            ELSE BinSearchLeft(a, v, low, mid)

searchsorted(a, v) == BinSearchLeft(a, v, 0, Len(a))

\* self.srd[dist_key] raises KeyError when the bucket has no sample
HasDist(sd, N_con) == dist_key(N_con) \in DOMAIN sd

\* P_sim with the rank counted from the observation's own place, so that
\* an observation above all N sampled values gets 1/N
P_sim_OneBased(sd, sim, N_con) ==
    LET dist == sd[dist_key(N_con)]
    IN RSub(R(1), Rat(searchsorted(dist, sim) - 1, Len(dist)))

\* P_sim returning the percentile rank itself
P_sim_Rank(sd, sim, N_con) ==
    LET dist == sd[dist_key(N_con)]
    IN Rat(searchsorted(dist, sim), Len(dist))

P_sim(sd, sim, N_con) ==
    LET dist == sd[dist_key(N_con)]
        RANK == searchsorted(dist, sim)
        PCT_RANK == Rat(RANK, Len(dist))
    IN RSub(R(1), PCT_RANK)

---------------------------------------------------------------------------
(* statsmodels.stats.multitest.fdrcorrection(pvals, method='indep'), the   *)
(* corrected p-values it returns (its second result)                       *)

\* the correction without the running minimum
MinAccumulate_None(x) == x

\* np.minimum.accumulate(x[::-1])[::-1]
RECURSIVE MinAccumulateFromRight(_)
MinAccumulateFromRight(x) ==
    IF Len(x) <= 1 THEN x
    ELSE LET rest == MinAccumulateFromRight(Tail(x))
         IN <<RMin(Head(x), Head(rest))>> \o rest

fdrcorrection(pvals) ==
    LET m == Len(pvals)
        pvals_sortind == StableOrder([i \in 1..m |-> <<pvals[i]>>])
        pvals_sorted == [i \in 1..m |-> pvals[pvals_sortind[i]]]
        ecdffactor == [i \in 1..m |-> Rat(i, m)]
        pvals_corrected_raw == [i \in 1..m |-> RDiv(pvals_sorted[i], ecdffactor[i])]
        pvals_corrected == MinAccumulateFromRight(pvals_corrected_raw)
        clipped == [i \in 1..m |-> IF RLt(R(1), pvals_corrected[i]) THEN R(1)
                                   ELSE pvals_corrected[i]]
    IN [i \in 1..m |-> clipped[CHOOSE k \in 1..m : pvals_sortind[k] = i]]

---------------------------------------------------------------------------
(* GeneWalk.get_GO_df *)

\* self.nv.most_similar(geneoi, topn=len(self.nv.vocab)): every other node
\* of the vocabulary with its similarity, most similar first
most_similar(nv, geneoi) ==
    LET others == nv.vocab \ {geneoi}
        Before(a, b) == nv.sim[<<geneoi, a>>] > nv.sim[<<geneoi, b>>]
                        \/ (nv.sim[<<geneoi, a>>] = nv.sim[<<geneoi, b>>] /\ a < b)
        rank(a) == 1 + Cardinality({b \in others : Before(b, a)})
    IN [p \in 1..Cardinality(others) |->
          LET a == CHOOSE a \in others : rank(a) = p
          IN [GO |-> a, similarity |-> nv.sim[<<geneoi, a>>]]]

\* the rows of simdf before line 240
Candidates(g, nv, geneoi) ==
    LET GO_con2gene == g.adj[geneoi] \cap GO_nodes
    IN SelectSeq(most_similar(nv, geneoi), LAMBDA r : r.GO \in GO_con2gene)

Min(a, b) == IF a < b THEN a ELSE b

\* a KeyError leaves get_GO_df when the embedding has no vector for the
\* gene (most_similar) or a candidate's bucket has no null sample (P_sim)
get_GO_df_raises(g, sd, nv, geneoi, N_gene_con) ==
    \/ geneoi \notin nv.vocab
    \/ \E r \in Range(Candidates(g, nv, geneoi)) :
          ~HasDist(sd, Min(Cardinality(g.adj[r.GO]), N_gene_con))

\* simdf of lines 240-257: every candidate with its p-value and q-value
ScoredCandidates(g, sd, nv, geneoi, N_gene_con) ==
    LET simdf == Candidates(g, nv, geneoi)
        N_GO_CON == [i \in 1..Len(simdf) |-> Cardinality(g.adj[simdf[i].GO])]
        DES == [i \in 1..Len(simdf) |-> g.name[simdf[i].GO]]
        PVAL == [i \in 1..Len(simdf) |->
                    P_sim(sd, simdf[i].similarity, Min(N_GO_CON[i], N_gene_con))]
        q_val == fdrcorrection(PVAL)
    IN [i \in 1..Len(simdf) |->
          [des |-> DES[i], GO |-> simdf[i].GO, Ncgo |-> N_GO_CON[i],
           similarity |-> R(simdf[i].similarity), pval |-> PVAL[i],
           padj |-> q_val[i]]]

\* get_GO_df with the filter of line 259 written simdf['padj'] <= alpha_FDR
get_GO_df_KeepEqual(g, sd, nv, geneoi, N_gene_con, alpha) ==
    LET simdf == ScoredCandidates(g, sd, nv, geneoi, N_gene_con)
    IN IF RLt(alpha, R(1)) THEN SelectSeq(simdf, LAMBDA r : RLe(r.padj, alpha))
       ELSE simdf

\* get_GO_df answering a gene without candidates with one row of its own
get_GO_df_Placeholder(g, sd, nv, geneoi, N_gene_con, alpha) ==
    LET simdf == ScoredCandidates(g, sd, nv, geneoi, N_gene_con)
    IN IF simdf = <<>>
       THEN <<[des |-> 0, GO |-> 0, Ncgo |-> 0, similarity |-> R(0),
               pval |-> R(1), padj |-> R(1)]>>
       ELSE IF RLt(alpha, R(1)) THEN SelectSeq(simdf, LAMBDA r : RLt(r.padj, alpha))
       ELSE simdf

\* the table get_GO_df returns when it raises nothing
get_GO_df(g, sd, nv, geneoi, N_gene_con, alpha) ==
    LET simdf == ScoredCandidates(g, sd, nv, geneoi, N_gene_con)
    IN IF RLt(alpha, R(1)) THEN SelectSeq(simdf, LAMBDA r : RLt(r.padj, alpha))
       ELSE simdf

---------------------------------------------------------------------------
(* GeneWalk.generate_output: the replicate loop *)

\* pd.Series(self.hgncid).unique()
RECURSIVE Unique(_)
Unique(s) ==
    IF s = <<>> THEN <<>>
    ELSE LET u == Unique(SubSeq(s, 1, Len(s) - 1))
         IN IF s[Len(s)] \in Range(u) THEN u ELSE Append(u, s[Len(s)])

\* the code a column that was never made categorical sorts by: the id itself
CategoryCode_ById(genes, h) == h

\* the code of a value of the categorical column 'HGNC'
CategoryCode(genes, h) ==
    LET cats == Unique(genes) IN CHOOSE i \in 1..Len(cats) : cats[i] = h

\* lines 160-167 for node n: the rows appended to self.outdfs[rep]; a
\* KeyError (no 'HGNC' attribute, or one out of get_GO_df) is passed over
NodeRows(g, sd, nv, genes, alpha, n) ==
    IF n \notin DOMAIN g.HGNC THEN <<>>
    ELSE IF g.HGNC[n] \notin Range(genes) THEN <<>>
    ELSE LET N_gene_con == Cardinality(g.adj[n])
         IN IF get_GO_df_raises(g, sd, nv, n, N_gene_con) THEN <<>>
            ELSE LET GOdf == get_GO_df(g, sd, nv, n, N_gene_con, alpha)
                 IN [i \in 1..Len(GOdf) |->
                        [HGNC |-> g.HGNC[n], Symbol |-> n, des |-> GOdf[i].des,
                         GO |-> GOdf[i].GO, Ncg |-> N_gene_con, Ncgo |-> GOdf[i].Ncgo,
                         similarity |-> GOdf[i].similarity, pval |-> GOdf[i].pval,
                         padj |-> GOdf[i].padj]]

RECURSIVE AllRows(_, _, _, _, _)
AllRows(g, sd, nv, genes, k) ==
    IF k = 0 THEN <<>>
    ELSE AllRows(g, sd, nv, genes, k - 1) \o NodeRows(g, sd, nv, genes, R(1), g_view[k])

\* the replicate loop with one FDR correction over the rows of all genes
ScoredRows_GlobalFDR(g, sd, nv, genes, alpha, k) ==
    LET rows == AllRows(g, sd, nv, genes, k)
        q_val == fdrcorrection([i \in 1..Len(rows) |-> rows[i].pval])
        adjusted == [i \in 1..Len(rows) |-> [rows[i] EXCEPT !.padj = q_val[i]]]
    IN IF RLt(alpha, R(1)) THEN SelectSeq(adjusted, LAMBDA r : RLt(r.padj, alpha))
       ELSE adjusted

\* the loop of lines 158-169 over the first k nodes of g_view
RECURSIVE ScoredRows(_, _, _, _, _, _)
ScoredRows(g, sd, nv, genes, alpha, k) ==
    IF k = 0 THEN <<>>
    ELSE ScoredRows(g, sd, nv, genes, alpha, k - 1)
         \o NodeRows(g, sd, nv, genes, alpha, g_view[k])

\* sort_values(by=['HGNC','Symbol','GO:ID']) with 'HGNC' categorical
SortReplicate(tbl, genes) ==
    SortByKeys(tbl, [i \in 1..Len(tbl) |->
        <<R(CategoryCode(genes, tbl[i].HGNC)), R(tbl[i].Symbol), R(tbl[i].GO)>>])

\* the identity columns of a row (COLUMNS of line 184)
KeyOf(r) == [HGNC |-> r.HGNC, Symbol |-> r.Symbol, des |-> r.des, GO |-> r.GO,
             Ncg |-> r.Ncg, Ncgo |-> r.Ncgo]

\* rename(mapper=mppr): the three value columns carry the replicate number
Rename(tbl, rep) ==
    [i \in 1..Len(tbl) |->
        [key |-> KeyOf(tbl[i]), similarity |-> (rep :> tbl[i].similarity),
         pval |-> (rep :> tbl[i].pval), padj |-> (rep :> tbl[i].padj)]]

\* self.outdfs[rep] after one pass of the replicate loop (lines 109-175)
ReplicateTable(g, sd, nv, genes, alpha, rep) ==
    Rename(SortReplicate(ScoredRows(g, sd, nv, genes, alpha, Len(g_view)), genes), rep)

---------------------------------------------------------------------------
(* GeneWalk.generate_output: merge, statistics, final sort *)

\* left.merge(right, on=COLUMNS, how='outer'), right being the table of
\* replicate rep: the rows of left in their order, then the rows only right
\* has; a cell of a replicate that lacks the row is NaN
MergeLeftRows(left, right, rep) ==
    LET Match(k) == {j \in 1..Len(right) : right[j].key = k}
        Cell(col, k) == IF Match(k) = {} THEN NaN
                        ELSE right[CHOOSE j \in Match(k) : TRUE][col][rep]
    IN [i \in 1..Len(left) |->
          [key |-> left[i].key,
           similarity |-> left[i].similarity @@ (rep :> Cell("similarity", left[i].key)),
           pval |-> left[i].pval @@ (rep :> Cell("pval", left[i].key)),
           padj |-> left[i].padj @@ (rep :> Cell("padj", left[i].key))]]

MergeRightOnlyRows(left, right, rep) ==
    LET leftKeys == {left[i].key : i \in 1..Len(left)}
        onlyRight == SelectSeq(right, LAMBDA r : r.key \notin leftKeys)
        absent == [r \in 1..(rep - 1) |-> NaN]
    IN [j \in 1..Len(onlyRight) |->
          [key |-> onlyRight[j].key,
           similarity |-> absent @@ onlyRight[j].similarity,
           pval |-> absent @@ onlyRight[j].pval,
           padj |-> absent @@ onlyRight[j].padj]]

\* the merge with how='left'
Merge_LeftJoin(left, right, rep) == MergeLeftRows(left, right, rep)

Merge(left, right, rep) ==
    MergeLeftRows(left, right, rep) \o MergeRightOnlyRows(left, right, rep)

\* lines 177-187: deepcopy of table 1, then the merge of tables 2..k
RECURSIVE MergeUpTo(_, _)
MergeUpTo(tables, k) ==
    IF k = 1 THEN tables[1]
    ELSE Merge(MergeUpTo(tables, k - 1), tables[k], k)

RECURSIVE SumOver(_, _)
SumOver(f, S) ==
    IF S = {} THEN R(0)
    ELSE LET i == CHOOSE i \in S : TRUE IN RAdd(f[i], SumOver(f, S \ {i}))

\* the mean with the absent cells counted as zero
NanMean_ZeroFill(cells) ==
    LET present == {r \in DOMAIN cells : ~IsNaN(cells[r])}
    IN IF present = {} THEN NaN
       ELSE RDiv(SumOver(cells, present), R(Cardinality(DOMAIN cells)))

\* DataFrame.mean(axis=1): NaN cells are skipped
NanMean(cells) ==
    LET present == {r \in DOMAIN cells : ~IsNaN(cells[r])}
    IN IF present = {} THEN NaN
       ELSE RDiv(SumOver(cells, present), R(Cardinality(present)))

\* DataFrame.std(axis=1) squared: NaN cells are skipped, ddof = 1
NanVar(cells) ==
    LET present == {r \in DOMAIN cells : ~IsNaN(cells[r])}
        count == Cardinality(present)
        avg == RDiv(SumOver(cells, present), R(count))
        sqdev == [r \in present |-> RMul(RSub(cells[r], avg), RSub(cells[r], avg))]
    IN IF count <= 1 THEN NaN
       ELSE RDiv(SumOver(sqdev, present), R(count - 1))

\* (std(axis=1) / np.sqrt(self.Nreps)) squared
Sem(cells) ==
    LET v == NanVar(cells) IN IF IsNaN(v) THEN NaN ELSE RDiv(v, R(Nreps))

\* lines 188-202: the six statistics columns
InsertStatistics(tbl) ==
    [i \in 1..Len(tbl) |->
        [key |-> tbl[i].key, similarity |-> tbl[i].similarity,
         pval |-> tbl[i].pval, padj |-> tbl[i].padj,
         mean_sim |-> NanMean(tbl[i].similarity), sem_sim |-> Sem(tbl[i].similarity),
         mean_pval |-> NanMean(tbl[i].pval), sem_pval |-> Sem(tbl[i].pval),
         mean_padj |-> NanMean(tbl[i].padj), sem_padj |-> Sem(tbl[i].padj)]]

\* the sort key of line 211: 'HGNC' (categorical), 'mean:padj', 'GO description'
FinalKey(row, genes) ==
    <<R(CategoryCode(genes, row.key.HGNC)), row.mean_padj, R(row.key.des)>>

\* lines 209-214: the final sort, then the replicate columns are dropped
SortAndDrop(tbl, genes) ==
    LET sorted == SortByKeys(tbl, [i \in 1..Len(tbl) |-> FinalKey(tbl[i], genes)])
    IN [i \in 1..Len(sorted) |->
          [key |-> sorted[i].key,
           mean_sim |-> sorted[i].mean_sim, sem_sim |-> sorted[i].sem_sim,
           mean_pval |-> sorted[i].mean_pval, sem_pval |-> sorted[i].sem_pval,
           mean_padj |-> sorted[i].mean_padj, sem_padj |-> sorted[i].sem_padj]]

\* the table generate_output ends with, as a function of its inputs
FinalTable(g, sd, files, genes, alpha) ==
    LET tables == [r \in 1..Nreps |-> ReplicateTable(g, sd, files[r], genes, alpha, r)]
    IN SortAndDrop(InsertStatistics(MergeUpTo(tables, Nreps)), genes)

---------------------------------------------------------------------------
(* The run of generate_output *)

NoCall == [op |-> "none"]

Init ==
    /\ graph \in Graphs
    /\ hgncid \in GeneLists
    /\ alpha_FDR \in Alphas
    /\ srd \in NullDists
    /\ nvfiles = <<>>
    /\ outdfs = <<>>
    /\ pc = "score"
    /\ call = NoCall

\* one pass of the replicate loop (lines 109-175): the embedding of the
\* replicate is read from its file (self.nv, kept as the last of nvfiles)
\* and every node of the network is scored against it
ScoreReplicate ==
    /\ pc = "score"
    /\ \E nv \in Embeddings :
          LET rep == Len(outdfs) + 1
          IN /\ nvfiles' = Append(nvfiles, nv)
             /\ outdfs' = Append(outdfs,
                    ReplicateTable(graph, srd, nv, hgncid, alpha_FDR, rep))
             /\ pc' = IF rep = Nreps THEN "merge" ELSE "score"
    /\ UNCHANGED <<graph, hgncid, alpha_FDR, srd, call>>

\* lines 177-187
MergeReplicates ==
    /\ pc = "merge"
    /\ outdfs' = Append(outdfs, MergeUpTo(outdfs, Nreps))
    /\ pc' = "stats"
    /\ UNCHANGED <<graph, hgncid, alpha_FDR, srd, nvfiles, call>>

\* lines 188-202
ComputeStatistics ==
    /\ pc = "stats"
    /\ outdfs' = [outdfs EXCEPT ![Nreps + 1] = InsertStatistics(@)]
    /\ pc' = "sort"
    /\ UNCHANGED <<graph, hgncid, alpha_FDR, srd, nvfiles, call>>

\* lines 208-214
SortFinal ==
    /\ pc = "sort"
    /\ outdfs' = [outdfs EXCEPT ![Nreps + 1] = SortAndDrop(@, hgncid)]
    /\ pc' = "done"
    /\ UNCHANGED <<graph, hgncid, alpha_FDR, srd, nvfiles, call>>

Next == ScoreReplicate \/ MergeReplicates \/ ComputeStatistics \/ SortFinal

Spec == Init /\ [][Next]_vars

\* the final table, once generate_output has it
Final == outdfs[Nreps + 1]

---------------------------------------------------------------------------
(* What the claims speak of *)

\* the gene nodes the replicate loop scores
GenesOfInterest == {n \in DOMAIN graph.HGNC : graph.HGNC[n] \in Range(hgncid)}

\* scoring gene node n in replicate rep raises a fatal error
FatalError(rep, n) ==
    get_GO_df_raises(graph, srd, nvfiles[rep], n, Cardinality(graph.adj[n]))

\* no replicate scored so far raised a fatal error for a gene of interest
NoFatalError ==
    \A rep \in 1..Len(nvfiles) : \A n \in GenesOfInterest : ~FatalError(rep, n)

KeysOf(tbl) == {tbl[i].key : i \in 1..Len(tbl)}

\* the replicates whose table has a row of identity k, and its cells there
RepsWith(k) == {r \in 1..Nreps : k \in KeysOf(outdfs[r])}

CellsOf(k, col) ==
    [r \in RepsWith(k) |->
        outdfs[r][CHOOSE i \in 1..Len(outdfs[r]) : outdfs[r][i].key = k][col][r]]

Average(cells) == RDiv(SumOver(cells, DOMAIN cells), R(Cardinality(DOMAIN cells)))

\* (stdev / sqrt(n_present)) squared, stdev being the sample standard
\* deviation of the cells (none for fewer than two cells)
SemOverPresent(cells) ==
    LET n == Cardinality(DOMAIN cells)
        avg == Average(cells)
        sqdev == [r \in DOMAIN cells |-> RMul(RSub(cells[r], avg), RSub(cells[r], avg))]
    IN IF n <= 1 THEN NaN
       ELSE RDiv(RDiv(SumOver(sqdev, DOMAIN cells), R(n - 1)), R(n))

\* C1: a fatal error while scoring any gene of interest in any replicate
\* aborts the run: generate_output never ends with a final table when the
\* embedding of a replicate lacks a gene of interest or the null
\* distribution lacks the bucket of one of its pairs.
C1_FatalErrorAborts ==
    pc = "done" => \A rep \in 1..Nreps : \A n \in GenesOfInterest : ~FatalError(rep, n)

\* C2: in every row of the final table each sem is the standard deviation
\* of the values of the replicates that have the pair, divided by
\* sqrt(n_present) (stated for the runs in which no fatal error occurred,
\* where a pair is missing from a replicate only through the FDR filter).
C2_SemOverPresent ==
    (pc = "done" /\ NoFatalError) =>
        \A i \in 1..Len(Final) :
            /\ Final[i].sem_sim = SemOverPresent(CellsOf(Final[i].key, "similarity"))
            /\ Final[i].sem_pval = SemOverPresent(CellsOf(Final[i].key, "pval"))
            /\ Final[i].sem_padj = SemOverPresent(CellsOf(Final[i].key, "padj"))

\* the rows (identities) of the run with alpha_FDR = 1 whose mean q-value
\* passes threshold t, read strictly (q < t) or not (q <= t)
FilteredAfterwards(t, strict) ==
    LET all == FinalTable(graph, srd, nvfiles, hgncid, R(1))
    IN {all[i].key : i \in {j \in 1..Len(all) :
            IF strict THEN RLt(all[j].mean_padj, t) ELSE RLe(all[j].mean_padj, t)}}

\* C3: filter idempotence: the run with alpha_FDR = t < 1 has the rows that
\* the run with alpha_FDR = 1 has after its final table is filtered at
\* q-value threshold t (under either reading of the threshold; stated for
\* the runs in which no fatal error occurred).
C3_FilterIdempotence ==
    (pc = "done" /\ NoFatalError /\ RLt(alpha_FDR, R(1))) =>
        \/ KeysOf(Final) = FilteredAfterwards(alpha_FDR, TRUE)
        \/ KeysOf(Final) = FilteredAfterwards(alpha_FDR, FALSE)

\* the position of gene id h in the input gene list
InputPosition(h) == CHOOSE i \in 1..Len(hgncid) :
                        hgncid[i] = h /\ \A j \in 1..(i - 1) : hgncid[j] # h

\* C4: order preservation: the rows of the final table are grouped by gene
\* and the groups follow the order of the input gene list.
C4_InputOrderPreserved ==
    pc = "done" =>
        \A i \in 1..Len(Final) : \A j \in 1..Len(Final) :
            i < j => InputPosition(Final[i].key.HGNC) <= InputPosition(Final[j].key.HGNC)

\* the input list puts the larger gene id first and both genes have rows
C4_Witness ==
    /\ pc = "done"
    /\ hgncid = <<7, 5>>
    /\ Len(Final) >= 2
    /\ Final[1].key.HGNC = 7
    /\ Final[Len(Final)].key.HGNC = 5

\* the replicate whose table the replicate loop has just appended (each
\* table is looked at in the state that follows its scoring)
Scored == {Len(outdfs)} \cap (1..Nreps)

RowsOfGene(tbl, n) == SelectSeq(tbl, LAMBDA r : r.key.Symbol = n)

\* the GO terms of gene node n that replicate rep kept
KeptGO(rep, n) == {r.key.GO : r \in Range(RowsOfGene(outdfs[rep], n))}

\* the candidate rows of gene node n in replicate rep, before the filter
CandidatesOf(rep, n) ==
    Range(ScoredCandidates(graph, srd, nvfiles[rep], n, Cardinality(graph.adj[n])))

\* C5 as stated: with alpha_FDR < 1 exactly the candidates with
\* q > alpha_FDR are dropped (q = alpha_FDR is kept); with alpha_FDR = 1
\* every candidate is kept.
C5_KeepsUpToAlpha ==
    \A rep \in Scored : \A n \in GenesOfInterest :
        ~FatalError(rep, n) =>
            KeptGO(rep, n) = {c.GO : c \in {d \in CandidatesOf(rep, n) :
                                 ~RLt(alpha_FDR, R(1)) \/ RLe(d.padj, alpha_FDR)}}

\* C5 amended: with alpha_FDR < 1 exactly the candidates with
\* q >= alpha_FDR are dropped (q = alpha_FDR is dropped too); with
\* alpha_FDR = 1 every candidate is kept.
C5_KeepsBelowAlpha ==
    \A rep \in Scored : \A n \in GenesOfInterest :
        ~FatalError(rep, n) =>
            KeptGO(rep, n) = {c.GO : c \in {d \in CandidatesOf(rep, n) :
                                 ~RLt(alpha_FDR, R(1)) \/ RLt(d.padj, alpha_FDR)}}

\* a candidate with q = alpha_FDR < 1 was dropped while another was kept
C5_Witness ==
    \E rep \in Scored : \E n \in GenesOfInterest :
        /\ ~FatalError(rep, n)
        /\ RLt(alpha_FDR, R(1))
        /\ \E c \in CandidatesOf(rep, n) : c.padj = alpha_FDR /\ c.GO \notin KeptGO(rep, n)
        /\ KeptGO(rep, n) # {}

\* C6: every identity of some replicate table is in exactly one row of the
\* final table, no other identity is, and the row's means are the averages
\* over the replicates that have the pair.
C6_OneRowMeanOverPresent ==
    pc = "done" =>
        /\ KeysOf(Final) = UNION {KeysOf(outdfs[r]) : r \in 1..Nreps}
        /\ \A i \in 1..Len(Final) : \A j \in 1..Len(Final) :
              Final[i].key = Final[j].key => i = j
        /\ \A i \in 1..Len(Final) :
              /\ Final[i].mean_sim = Average(CellsOf(Final[i].key, "similarity"))
              /\ Final[i].mean_pval = Average(CellsOf(Final[i].key, "pval"))
              /\ Final[i].mean_padj = Average(CellsOf(Final[i].key, "padj"))

\* a row of the final table comes from some replicates and not from others
C6_Witness ==
    /\ pc = "done"
    /\ NoFatalError
    /\ \E i \in 1..Len(Final) : RepsWith(Final[i].key) \notin {{}, 1..Nreps}

\* the orders the replicate embeddings can be numbered in
Orders == {f \in [1..Nreps -> 1..Nreps] : \A a, b \in 1..Nreps : a # b => f[a] # f[b]}

\* the table of replicate r with its value columns numbered as replicate n
Renumber(tbl, r, n) ==
    [i \in 1..Len(tbl) |->
        [key |-> tbl[i].key, similarity |-> (n :> tbl[i].similarity[r]),
         pval |-> (n :> tbl[i].pval[r]), padj |-> (n :> tbl[i].padj[r])]]

\* the final table when the replicate tables are completed and merged in
\* order f[1], f[2], ...
FinalInOrder(f) ==
    LET tables == [n \in 1..Nreps |-> Renumber(outdfs[f[n]], f[n], n)]
    IN SortAndDrop(InsertStatistics(MergeUpTo(tables, Nreps)), hgncid)

\* C7 as stated: the final table, row order included, is the same for
\* every order of the replicates, also for rows that tie on the sort key
\* (stated for the runs in which no fatal error occurred).
C7_SameTableInEveryOrder ==
    (pc = "done" /\ NoFatalError) => \A f \in Orders : FinalInOrder(f) = Final

\* C7 amended: in every order of the replicates the final table has the
\* same rows with the same statistics, and the same sort key at every
\* position; only rows that tie on the whole key may change places.
C7_SameRowsAndKeysInEveryOrder ==
    pc = "done" =>
        \A f \in Orders :
            LET T == FinalInOrder(f)
            IN /\ Len(T) = Len(Final)
               /\ Range(T) = Range(Final)
               /\ \A i \in 1..Len(T) : FinalKey(T[i], hgncid) = FinalKey(Final[i], hgncid)

\* another order of the replicates gives the rows in another order
C7_Witness ==
    /\ pc = "done"
    /\ NoFatalError
    /\ \E f \in Orders : FinalInOrder(f) # Final

\* embeddings nv1 and nv2 are the same as far as gene node n is concerned
SameForGene(nv1, nv2, n) ==
    /\ (n \in nv1.vocab) = (n \in nv2.vocab)
    /\ \A go \in graph.adj[n] \cap GO_nodes :
          /\ (go \in nv1.vocab) = (go \in nv2.vocab)
          /\ nv1.sim[<<n, go>>] = nv2.sim[<<n, go>>]

\* C10: FDR correction is local to a gene: within a replicate the rows of a
\* gene (q-values and survivors) are the same for every other gene list
\* holding the gene and every other embedding that agrees on the gene.
C10_FDRLocalToGene ==
    \A rep \in Scored : \A n \in GenesOfInterest :
        \A genes2 \in AllGeneLists : \A nv2 \in Embeddings :
            (graph.HGNC[n] \in Range(genes2) /\ SameForGene(nvfiles[rep], nv2, n)) =>
                RowsOfGene(outdfs[rep], n)
                  = RowsOfGene(ReplicateTable(graph, srd, nv2, genes2, alpha_FDR, rep), n)

\* a gene has rows in a replicate scored with a second gene of interest
\* whose similarities another embedding changes
C10_Witness ==
    \E rep \in Scored : \E n \in GenesOfInterest :
        /\ Len(hgncid) = 2
        /\ RowsOfGene(outdfs[rep], n) # <<>>
        /\ \E nv2 \in Embeddings :
              /\ SameForGene(nvfiles[rep], nv2, n)
              /\ \E o \in GenesOfInterest \ {n} : ~SameForGene(nvfiles[rep], nv2, o)

\* the genes of interest without a GO term among their neighbours
WithoutGOTerms == {n \in GenesOfInterest : graph.adj[n] \cap GO_nodes = {}}

\* the input gene list without the ids of those genes
ListOfTheOthers ==
    SelectSeq(hgncid, LAMBDA h : h \notin {graph.HGNC[n] : n \in WithoutGOTerms})

\* C12: a gene of interest that is in the graph but has no GO term for
\* neighbour raises no error and contributes no rows: get_GO_df returns an
\* empty table for it, and the table of the replicate and the final table
\* are the ones of the run whose input list does not hold the gene.
C12_NoGOTermsNoRows ==
    /\ \A rep \in Scored :
          /\ \A n \in WithoutGOTerms :
                /\ ~FatalError(rep, n)
                /\ get_GO_df(graph, srd, nvfiles[rep], n, Cardinality(graph.adj[n]),
                             alpha_FDR) = <<>>
                /\ RowsOfGene(outdfs[rep], n) = <<>>
          /\ outdfs[rep] = ReplicateTable(graph, srd, nvfiles[rep], ListOfTheOthers,
                                          alpha_FDR, rep)
    /\ pc = "done" =>
          Final = FinalTable(graph, srd, nvfiles, ListOfTheOthers, alpha_FDR)

\* a run over a list holding the gene without GO terms has ended with rows
\* of both other genes
C12_Witness ==
    /\ pc = "done"
    /\ WithoutGOTerms # {}
    /\ ListOfTheOthers # hgncid
    /\ NoFatalError
    /\ \A n \in GenesOfInterest \ WithoutGOTerms : RowsOfGene(Final, n) # <<>>
    /\ \A n \in WithoutGOTerms : RowsOfGene(Final, n) = <<>>

---------------------------------------------------------------------------
(* P_sim and the FDR correction on inputs of their own *)

\* the sorted, non-empty null samples of up to MaxLen values in 1..MaxVal
SortedSamples ==
    {smp \in UNION {[1..n -> 1..MaxVal] : n \in 1..MaxLen} :
        \A i \in 1..(Len(smp) - 1) : smp[i] <= smp[i + 1]}

\* the p-values P_sim can return for samples of up to MaxLen values
PGrid == {Rat(x[1], x[2]) : x \in {y \in (0..MaxLen) \X (1..MaxLen) : y[1] <= y[2]}}

PLists == UNION {[1..m -> PGrid] : m \in 0..MaxM}

Idle ==
    /\ graph \in Graphs
    /\ hgncid = <<>>
    /\ alpha_FDR = R(1)
    /\ nvfiles = <<>>
    /\ outdfs = <<>>
    /\ pc = "call"

\* a null sample of 50 ascending values (0.36 .. 0.85 in hundredths) and an
\* observed similarity above all of them (0.90)
ScenarioSample == [i \in 1..50 |-> 35 + i]

ScenarioSims == {90}

InitPsim ==
    /\ Idle
    /\ \E N_con \in 1..2 : \E smp \in SortedSamples \cup {ScenarioSample} :
          /\ srd = (dist_key(N_con) :> smp)
          /\ call \in [op : {"P_sim"}, N_con : {N_con},
                       sim1 : 0..(MaxVal + 1) \cup ScenarioSims,
                       sim2 : 0..(MaxVal + 1) \cup ScenarioSims,
                       pval1 : {NaN}, pval2 : {NaN}]

\* two calls of P_sim for one connectivity
CallP_sim ==
    /\ pc = "call"
    /\ call.op = "P_sim"
    /\ call' = [call EXCEPT !.pval1 = P_sim(srd, call.sim1, call.N_con),
                            !.pval2 = P_sim(srd, call.sim2, call.N_con)]
    /\ pc' = "returned"
    /\ UNCHANGED <<graph, hgncid, alpha_FDR, srd, nvfiles, outdfs>>

NextPsim == CallP_sim

SpecPsim == InitPsim /\ [][NextPsim]_vars

InitFDR ==
    /\ Idle
    /\ srd = <<>>
    /\ call \in [op : {"fdrcorrection"}, pvals : PLists, q_val : {<<>>}]

\* lines 252-255 for the p-values of one gene's candidates
CallFdrcorrection ==
    /\ pc = "call"
    /\ call.op = "fdrcorrection"
    /\ call' = [call EXCEPT !.q_val = fdrcorrection(call.pvals)]
    /\ pc' = "returned"
    /\ UNCHANGED <<graph, hgncid, alpha_FDR, srd, nvfiles, outdfs>>

NextFDR == CallFdrcorrection

SpecFDR == InitFDR /\ [][NextFDR]_vars

\* C8: monotonic p-value: within one bucket a larger similarity never gets
\* a larger p-value, and every p-value lies in [0, 1].
C8_PvalueMonotone ==
    (pc = "returned" /\ call.op = "P_sim") =>
        /\ call.sim1 > call.sim2 => RLe(call.pval1, call.pval2)
        /\ RLe(R(0), call.pval1) /\ RLe(call.pval1, R(1))
        /\ RLe(R(0), call.pval2) /\ RLe(call.pval2, R(1))

\* the larger similarity got a strictly smaller p-value
C8_Witness ==
    /\ pc = "returned"
    /\ call.op = "P_sim"
    /\ call.sim1 > call.sim2
    /\ RLt(call.pval1, call.pval2)

\* the 1-based rank of p-value i in ascending order
AscendingRank(pvals, i) ==
    1 + Cardinality({j \in 1..Len(pvals) :
            RLt(pvals[j], pvals[i]) \/ (pvals[j] = pvals[i] /\ j < i)})

\* p_i * m / rank_i
ScaledP(pvals, i) ==
    RDiv(RMul(pvals[i], R(Len(pvals))), R(AscendingRank(pvals, i)))

\* C9: the q-values are p_i * m / i made monotone by the running minimum
\* from the largest rank down and clipped to [0, 1]; they are
\* non-decreasing along ascending p-value, q_i >= p_i, and q_i in [0, 1].
C9_BenjaminiHochberg ==
    (pc = "returned" /\ call.op = "fdrcorrection") =>
        LET p == call.pvals
            q == call.q_val
        IN /\ Len(q) = Len(p)
           /\ \A i \in 1..Len(p) :
                 /\ \A j \in 1..Len(p) :
                       /\ AscendingRank(p, j) >= AscendingRank(p, i)
                            => RLe(RMin(q[i], R(1)), RMin(ScaledP(p, j), R(1)))
                       /\ RLe(p[i], p[j]) => RLe(q[i], q[j])
                 /\ \E j \in 1..Len(p) :
                       /\ AscendingRank(p, j) >= AscendingRank(p, i)
                       /\ q[i] = RMin(ScaledP(p, j), R(1))
                 /\ RLe(p[i], q[i])
                 /\ RLe(R(0), q[i]) /\ RLe(q[i], R(1))

\* the running minimum lowered a q-value below its p_i * m / i
C9_Witness ==
    /\ pc = "returned"
    /\ call.op = "fdrcorrection"
    /\ \E i \in 1..Len(call.pvals) :
          /\ RLt(call.q_val[i], ScaledP(call.pvals, i))
          /\ RLt(call.q_val[i], R(1))

\* the null sample P_sim looked the similarities up in
SampleOfCall == srd[dist_key(call.N_con)]

\* the first similarity of the call lies above every sampled value
AboveAllSampled == \A i \in 1..Len(SampleOfCall) : SampleOfCall[i] < call.sim1

\* C11 as stated: an observed similarity above all N sampled values of its
\* bucket gets the p-value 1/N (0.02 for the 50 values of the scenario).
C11_AboveAllGetsOneOverN ==
    (pc = "returned" /\ call.op = "P_sim" /\ AboveAllSampled) =>
        call.pval1 = Rat(1, Len(SampleOfCall))

\* C11 amended: an observed similarity above all N sampled values of its
\* bucket gets the p-value 0 = 1 - N/N (0, not 0.02, in the scenario).
C11_AboveAllGetsZero ==
    (pc = "returned" /\ call.op = "P_sim" /\ AboveAllSampled) =>
        call.pval1 = R(0)

\* the scenario: 0.9 against the 50 smaller values
C11_Witness ==
    /\ pc = "returned"
    /\ call.op = "P_sim"
    /\ SampleOfCall = ScenarioSample
    /\ call.sim1 \in ScenarioSims
    /\ AboveAllSampled
    /\ call.pval1 = R(0)

====
